---- MODULE Spec2Model ----
(***************************************************************************)
(* Model of the Notion -> Google Calendar reconciler                       *)
(* (src/unnamed/part_001): the periodic timer, sync(), syncGCal(),         *)
(* syncNotion(), getPages(), getEvents(), reducePage(), createEvent() and  *)
(* eventsEqual(), running against a source store (Notion database) and a   *)
(* target store (calendar).                                                *)
(*                                                                         *)
(* One action is one awaited store call of one pass, together with the     *)
(* synchronous code that follows its response.  Passes started by the      *)
(* timer are numbered in start order; nothing prevents a pass from being   *)
(* started while an earlier one is still awaiting a call.                  *)
(***************************************************************************)
EXTENDS Integers, Sequences, FiniteSets, TLC

(* ------------------------------ bounds -------------------------------- *)
\* number of timer firings explored
MaxPasses == 2
\* number of events the calendar may hold before the first pass
InitEvents == 2
\* number of store calls that may fail with a transient error
MaxFailures == 1
\* number of items a store has to serve to one paginated fetch
MaxItems == 3
\* number of items a store puts in one result page at most
PageSize == 2

(* --------------------------- JavaScript values ------------------------ *)
\* the JavaScript value undefined (also stands for null / a missing field)
Undefined == "<undefined>"
\* the result of Date.parse on something that is no timestamp
NaN == -1

\* JavaScript == on two numbers: NaN is equal to nothing, itself included
NumEq(a, b) == a # NaN /\ b # NaN /\ a = b

\* Date.parse, in minutes since the epoch, on the strings of this model;
\* Date.parse(undefined) is NaN
DateParse(s) ==
    CASE s = "2024-03-01T10:00:00+00:00" -> 28488120
      [] s = "2024-03-01T05:00:00-05:00" -> 28488120
      [] s = "2024-03-02T09:00:00-05:00" -> 28489800
      [] s = "2024-02-01T08:00:00+00:00" -> 28446240
      [] s = "2024-03-01"                -> 28487520
      [] s = "2024-03-02"                -> 28488960
      [] OTHER                           -> NaN

(* ------------------------------ source store -------------------------- *)
\* A page of the database: Undefined stands for an empty property; dated
\* tells whether the Date property holds a date object (with start and end).
Page(id, type, name, course, start, end, status) ==
    [id |-> id, type |-> type, name |-> name, course |-> course,
     dated |-> (start # Undefined \/ end # Undefined),
     start |-> start, end |-> end, status |-> status]

\* an all-day homework that is done
PageA1 == Page("a", "Homework", "HW1", "CS101", "2024-03-01", Undefined, "Done")
\* a timed quiz without course
PageA2 == Page("a", "Quiz", "HW1", Undefined, "2024-03-01T10:00:00+00:00", Undefined, "Todo")
\* a lab without name or status, whose date is a range
PageB1 == Page("b", "Lab", Undefined, "CS101", "2024-03-01", "2024-03-02T09:00:00-05:00", Undefined)
\* a lecture: the filter of the query leaves it out
PageB2 == Page("b", "Lecture", "L1", "CS101", "2024-03-02", Undefined, Undefined)

\* the databases explored: at most one page per id, in query order
SourceStores ==
    { <<PageA1, PageB2>>, <<PageA2, PageB1>> }

\* the filter without the condition on Date
pageFilterTypeOnly(page) ==
    /\ page.type # "Lecture"
    /\ page.type # "Exam"

\* the filter the query sends: Date is not empty, Type is neither Lecture nor Exam
pageFilter(page) ==
    /\ page.dated
    /\ page.type # "Lecture"
    /\ page.type # "Exam"

\* reducePage taking the start of the Date whenever there is one
reducePageStartFirst(page) ==
    [id     |-> page.id,
     name   |-> page.name,
     course |-> page.course,
     date   |-> IF page.dated
                THEN (IF page.start # Undefined THEN page.start ELSE page.end)
                ELSE Undefined,
     status |-> page.status]

reducePage(page) ==
    [id     |-> page.id,
     name   |-> page.name,
     course |-> page.course,
     date   |-> IF page.dated
                THEN (IF page.end # Undefined THEN page.end ELSE page.start)
                ELSE Undefined,
     status |-> page.status]

RECURSIVE SelectPages(_)
SelectPages(s) ==
    IF s = <<>> THEN <<>>
    ELSE IF pageFilter(Head(s))
         THEN <<reducePage(Head(s))>> \o SelectPages(Tail(s))
         ELSE SelectPages(Tail(s))

\* getPages(): the Map of reduced pages, as the sequence of its values in
\* insertion order (the ids of a database are distinct)
getPages(db) == SelectPages(db)

\* Map.has / Map.get / Map.delete on such a Map
PagesHas(pgs, id) == \E k \in 1..Len(pgs) : pgs[k].id = id
PagesGet(pgs, id) == pgs[CHOOSE k \in 1..Len(pgs) : pgs[k].id = id]
PagesDelete(pgs, id) == SelectSeq(pgs, LAMBDA r : r.id # id)

(* ------------------------------ events -------------------------------- *)
AllDay(d) == [date |-> d, dateTime |-> Undefined]
Timed(t)  == [date |-> Undefined, dateTime |-> t]

Body(summary, description, start, end) ==
    [summary |-> summary, description |-> description, start |-> start, end |-> end]

\* the title without the course
baseTitleNameOnly(page) ==
    IF page.name # Undefined THEN page.name ELSE ""

\* the title before the status marker
baseTitle(page) ==
    IF page.name # Undefined
    THEN (IF page.course # Undefined
          THEN "[" \o page.course \o "] " \o page.name
          ELSE page.name)
    ELSE ""

\* U+2705 and U+274C
DoneGlyph == "\\u2705"
NotDoneGlyph == "\\u274c"

\* every page that has a status marked as done
statusMarkerAnyStatus(page) ==
    IF page.status # Undefined THEN DoneGlyph ELSE NotDoneGlyph

\* if (page.status == "Done") ... else ...: the marker put before the title
statusMarker(page) ==
    IF page.status = "Done" THEN DoneGlyph ELSE NotDoneGlyph

\* description: page.name
eventDescriptionName(page) == page.name

\* description: page.id
eventDescription(page) == page.id

\* always { dateTime: page.date }, as createEvent of src/index.js
eventDateTimed(page) == Timed(page.date)

\* if (page.date.length == 10) { date: page.date } else { dateTime: page.date }
eventDate(page) ==
    IF Len(page.date) = 10 THEN AllDay(page.date) ELSE Timed(page.date)

\* page.date.length on a page without date: a TypeError
createEventThrows(page) == page.date = Undefined

createEvent(page) ==
    Body(statusMarker(page) \o " " \o baseTitle(page),
         eventDescription(page), eventDate(page), eventDate(page))

\* eventsEqual without the two comparisons of start
eventsEqualIgnoringStart(e1, e2) ==
    /\ e1.summary = e2.summary
    /\ e1.description = e2.description
    /\ e1.end.date = e2.end.date
    /\ NumEq(DateParse(e1.end.dateTime), DateParse(e2.end.dateTime))

eventsEqual(e1, e2) ==
    /\ e1.summary = e2.summary
    /\ e1.description = e2.description
    /\ e1.start.date = e2.start.date
    /\ NumEq(DateParse(e1.start.dateTime), DateParse(e2.start.dateTime))
    /\ e1.end.date = e2.end.date
    /\ NumEq(DateParse(e1.end.dateTime), DateParse(e2.end.dateTime))

(* ------------------------------ target store -------------------------- *)
WithId(id, b) ==
    [id |-> id, summary |-> b.summary, description |-> b.description,
     start |-> b.start, end |-> b.end]

BodyOf(e) == Body(e.summary, e.description, e.start, e.end)

\* what the calendar may hold before the first pass: the event of the
\* all-day homework, the event of the timed quiz with its instant written
\* with another offset, an event of page a whose start is stale, an event
\* of somebody else and an event without description
InitBodies ==
    { createEvent(reducePage(PageA1)),
      Body(NotDoneGlyph \o " HW1", "a",
           Timed("2024-03-01T05:00:00-05:00"), Timed("2024-03-01T05:00:00-05:00")),
      Body(NotDoneGlyph \o " HW1", "a",
           Timed("2024-02-01T08:00:00+00:00"), Timed("2024-03-01T10:00:00+00:00")),
      Body("lunch", "xyz", AllDay("2024-03-02"), AllDay("2024-03-02")),
      Body("dentist", Undefined,
           Timed("2024-02-01T08:00:00+00:00"), Timed("2024-02-01T08:00:00+00:00")) }

RECURSIVE Numbered(_, _)
Numbered(bodies, first) ==
    IF bodies = <<>> THEN <<>>
    ELSE <<WithId(first, Head(bodies))>> \o Numbered(Tail(bodies), first + 1)

InitCalendars ==
    UNION { { Numbered(bs, 1) : bs \in [1..n -> InitBodies] } : n \in 0..InitEvents }

StoreHas(cal, id) == \E k \in 1..Len(cal) : cal[k].id = id
StoreGet(cal, id) == cal[CHOOSE k \in 1..Len(cal) : cal[k].id = id]
\* a delete call without effect on the calendar
StoreDeleteKeeps(cal, id) == cal

\* events.delete, events.update (the request body replaces the event) and
\* events.insert (the calendar assigns the id)
StoreDelete(cal, id) == SelectSeq(cal, LAMBDA e : e.id # id)
StoreUpdate(cal, id, b) == [k \in 1..Len(cal) |-> IF cal[k].id = id THEN WithId(id, b) ELSE cal[k]]
StoreInsert(cal, id, b) == Append(cal, WithId(id, b))
\* getEvents(): events.list serves the events in the order the calendar
\* holds them (the initial calendars cover every order)
getEvents(cal) == cal

(* ------------------------------ state --------------------------------- *)
VARIABLES
    notion,      \* the database: a sequence of pages
    gcal,        \* the calendar: a sequence of events
    nextEventId, \* the id the calendar gives to the next inserted event
    started,     \* number of timer firings so far
    pc,          \* per pass: where it is
    pages,       \* per pass: the Map `pages` of sync()
    events,      \* per pass: the array `events` of syncGCal()
    i,           \* per pass: position of the for loop of syncGCal()
    j,           \* per pass: position of the for loop of syncNotion()
    fetched,     \* per pass: the Map as getPages() returned it
    calls,       \* per pass: the store calls issued so far
    overlap,     \* per pass: whether another pass was in progress meanwhile
    errLog,      \* number of console.error lines
    failures,    \* number of transient failures so far
    globalE,     \* the global e that for (e of events) of part_000 and index.js assigns
    inflight,    \* per pass of part_000 and index.js: the awaited delete or update request
    fn,          \* one page on its way through reducePage() and createEvent()
    pg           \* one paginated fetch: getPages() or getEvents()

vars == <<notion, gcal, nextEventId, started, pc, pages, events, i, j,
          fetched, calls, overlap, errLog, failures, globalE, inflight, fn, pg>>

\* no page is followed on its own, no paginated fetch is followed on its own
FnOff == [stage |-> "off"]
PgOff == [stage |-> "off"]

Passes == 1..MaxPasses

\* no request is awaited
NoRequest == [op |-> "none"]

Running(p) == pc[p] \notin {"idle", "done", "failed"}

Call(op, id, body, ok) == [op |-> op, eventId |-> id, body |-> body, ok |-> ok]
NoBody == Body("", Undefined, AllDay(Undefined), AllDay(Undefined))

Init ==
    /\ notion \in SourceStores
    /\ gcal \in InitCalendars
    /\ nextEventId = Len(gcal) + 1
    /\ started = 0
    /\ pc = [p \in Passes |-> "idle"]
    /\ pages = [p \in Passes |-> <<>>]
    /\ events = [p \in Passes |-> <<>>]
    /\ i = [p \in Passes |-> 1]
    /\ j = [p \in Passes |-> 1]
    /\ fetched = [p \in Passes |-> <<>>]
    /\ calls = [p \in Passes |-> <<>>]
    /\ overlap = [p \in Passes |-> FALSE]
    /\ errLog = 0
    /\ failures = 0
    /\ globalE = Undefined
    /\ inflight = [p \in Passes |-> NoRequest]
    /\ fn = FnOff
    /\ pg = PgOff

(* ------------------------------ the timer ----------------------------- *)
\* setInterval(sync, 60000): the timer fires whether or not an earlier pass
\* has ended; sync() logs "Syncing..." and issues the first query
Tick ==
    /\ started < MaxPasses
    /\ LET p == started + 1 IN
        /\ started' = p
        /\ pc' = [pc EXCEPT ![p] = "getPages"]
        /\ overlap' = [q \in Passes |->
                          IF q = p THEN \E r \in Passes : Running(r)
                          ELSE overlap[q] \/ Running(q)]
    /\ UNCHANGED <<fn, pg, globalE, inflight, notion, gcal, nextEventId, pages, events, i, j, fetched,
                   calls, errLog, failures>>

(* ------------------------------ sync() -------------------------------- *)
\* the error is logged but the pass goes on where it was
CatchAndGoOn(p) ==
    /\ pc' = pc
    /\ errLog' = errLog + 1

\* catch (error) { console.error(error); }: the pass ends, nothing is undone
Catch(p) ==
    /\ pc' = [pc EXCEPT ![p] = "failed"]
    /\ errLog' = errLog + 1

\* an awaited call rejects: a transient error of the service
Transient ==
    /\ failures < MaxFailures
    /\ failures' = failures + 1

Log(p, c) == calls' = [calls EXCEPT ![p] = Append(@, c)]

\* getPages() archiving in the database the pages it has read
GetPagesOkArchiving(p) ==
    /\ pc[p] = "getPages"
    /\ pages' = [pages EXCEPT ![p] = getPages(notion)]
    /\ fetched' = [fetched EXCEPT ![p] = getPages(notion)]
    /\ Log(p, Call("query", 0, NoBody, TRUE))
    /\ pc' = [pc EXCEPT ![p] = "getEvents"]
    /\ notion' = SelectSeq(notion, LAMBDA page : ~pageFilter(page))
    /\ UNCHANGED <<fn, pg, globalE, inflight, gcal, nextEventId, started, events, i, j, overlap,
                   errLog, failures>>

\* const pages = await getPages(); then syncGCal(pages) issues the list call
GetPagesOk(p) ==
    /\ pc[p] = "getPages"
    /\ pages' = [pages EXCEPT ![p] = getPages(notion)]
    /\ fetched' = [fetched EXCEPT ![p] = getPages(notion)]
    /\ Log(p, Call("query", 0, NoBody, TRUE))
    /\ pc' = [pc EXCEPT ![p] = "getEvents"]
    /\ UNCHANGED <<fn, pg, globalE, inflight, notion, gcal, nextEventId, started, events, i, j, overlap,
                   errLog, failures>>

GetPagesFail(p) ==
    /\ pc[p] = "getPages"
    /\ Transient
    /\ Log(p, Call("query", 0, NoBody, FALSE))
    /\ Catch(p)
    /\ UNCHANGED <<fn, pg, globalE, inflight, notion, gcal, nextEventId, started, pages, events, i, j,
                   fetched, overlap>>

(* ------------------------------ syncGCal() ---------------------------- *)
\* pages.delete(pageId) moved into the branch that issues no update
PagesKeptAfterUpdate(pgs, pageId, updated) ==
    IF updated THEN pgs ELSE PagesDelete(pgs, pageId)

\* pages.delete(pageId) moved into the branch that issues the update
PagesKeptAfterSkip(pgs, pageId, updated) ==
    IF updated THEN PagesDelete(pgs, pageId) ELSE pgs

\* pages.delete(pageId) left out
PagesKeptAlways(pgs, pageId, updated) == pgs

\* the Map after an event linked to pageId has been handled: pages.delete(pageId)
PagesAfterMatch(pgs, pageId, updated) == PagesDelete(pgs, pageId)

\* whether an update is issued for event e, given the page it is linked to
NeedsUpdate(e, page) == ~eventsEqual(e, createEvent(page))

\* an event that is linked to no page of the Map is left alone too
NoCallKeepsOrphans(pgs, e) ==
    IF PagesHas(pgs, e.description)
    THEN ~NeedsUpdate(e, PagesGet(pgs, e.description))
    ELSE TRUE

\* whether the iteration for event e issues no call: e is linked to a page
\* of the Map and equal to the event of that page
NoCall(pgs, e) ==
    /\ PagesHas(pgs, e.description)
    /\ ~NeedsUpdate(e, PagesGet(pgs, e.description))

\* The for loop of syncGCal from position k on, up to its next awaited call:
\* an iteration that issues no call only removes the page from the Map.
RECURSIVE Advance(_, _, _)
\* a loop that comes back to the event it has just handled
AdvanceStaying(pgs, evs, k) ==
    [pages |-> pgs, i |-> IF k > 1 THEN k - 1 ELSE k]

Advance(pgs, evs, k) ==
    IF k <= Len(evs) /\ NoCall(pgs, evs[k])
    THEN Advance(PagesAfterMatch(pgs, evs[k].description, FALSE), evs, k + 1)
    ELSE [pages |-> pgs, i |-> k]

\* the for loop of syncGCal never left: after the last event the pass
\* stays in the loop
ResumeNoExit(p, pgs, evs, k) ==
    LET a == Advance(pgs, evs, k) IN
    /\ pages' = [pages EXCEPT ![p] = a.pages]
    /\ i' = [i EXCEPT ![p] = a.i]
    /\ j' = [j EXCEPT ![p] = 1]
    /\ pc' = [pc EXCEPT ![p] = "loop"]

\* where the pass awaits next with the loop at position k: a delete or an
\* update of syncGCal, the first insert of syncNotion, or nothing
Resume(p, pgs, evs, k) ==
    LET a == Advance(pgs, evs, k) IN
    /\ pages' = [pages EXCEPT ![p] = a.pages]
    /\ i' = [i EXCEPT ![p] = a.i]
    /\ j' = [j EXCEPT ![p] = 1]
    /\ pc' = [pc EXCEPT ![p] = IF a.i <= Len(evs) THEN "loop"
                               ELSE IF a.pages # <<>> THEN "syncNotion"
                               ELSE "done"]

\* const events = await getEvents()
GetEventsOk(p) ==
    /\ pc[p] = "getEvents"
    /\ events' = [events EXCEPT ![p] = getEvents(gcal)]
    /\ Resume(p, pages[p], getEvents(gcal), 1)
    /\ Log(p, Call("list", 0, NoBody, TRUE))
    /\ UNCHANGED <<fn, pg, globalE, inflight, notion, gcal, nextEventId, started, fetched, overlap,
                   errLog, failures>>

GetEventsFail(p) ==
    /\ pc[p] = "getEvents"
    /\ Transient
    /\ Log(p, Call("list", 0, NoBody, FALSE))
    /\ Catch(p)
    /\ UNCHANGED <<fn, pg, globalE, inflight, notion, gcal, nextEventId, started, pages, events, i, j,
                   fetched, overlap>>

\* the fetched list walked from its end
CurEventFromEnd(p) == events[p][Len(events[p]) + 1 - i[p]]

\* the event of the current iteration of for (const e of events)
CurEvent(p) == events[p][i[p]]
DeleteDue(p) ==
    /\ pc[p] = "loop"
    /\ i[p] <= Len(events[p])
    /\ ~PagesHas(pages[p], CurEvent(p).description)
UpdateDue(p) ==
    /\ pc[p] = "loop"
    /\ i[p] <= Len(events[p])
    /\ PagesHas(pages[p], CurEvent(p).description)
updatedEvent(p) == createEvent(PagesGet(pages[p], CurEvent(p).description))

\* if (!pages.has(pageId)) await calendarClient.events.delete(...)
LoopDeleteOk(p) ==
    /\ DeleteDue(p)
    /\ StoreHas(gcal, CurEvent(p).id)
    /\ gcal' = StoreDelete(gcal, CurEvent(p).id)
    /\ Log(p, Call("delete", CurEvent(p).id, NoBody, TRUE))
    /\ Resume(p, pages[p], events[p], i[p] + 1)
    /\ UNCHANGED <<fn, pg, globalE, inflight, notion, nextEventId, started, events, fetched, overlap,
                   errLog, failures>>

\* the delete rejects: a transient error, or the event is gone already
LoopDeleteFail(p) ==
    /\ DeleteDue(p)
    /\ IF StoreHas(gcal, CurEvent(p).id) THEN Transient ELSE UNCHANGED failures
    /\ Log(p, Call("delete", CurEvent(p).id, NoBody, FALSE))
    /\ Catch(p)
    /\ UNCHANGED <<fn, pg, globalE, inflight, notion, gcal, nextEventId, started, pages, events, i, j,
                   fetched, overlap>>

\* else { if (!eventsEqual(e, updatedEvent)) await calendarClient.events.update(...);
\*        pages.delete(pageId) }
LoopUpdateOk(p) ==
    /\ UpdateDue(p)
    /\ StoreHas(gcal, CurEvent(p).id)
    /\ gcal' = StoreUpdate(gcal, CurEvent(p).id, updatedEvent(p))
    /\ Log(p, Call("update", CurEvent(p).id, updatedEvent(p), TRUE))
    /\ Resume(p, PagesAfterMatch(pages[p], CurEvent(p).description, TRUE),
              events[p], i[p] + 1)
    /\ UNCHANGED <<fn, pg, globalE, inflight, notion, nextEventId, started, events, fetched, overlap,
                   errLog, failures>>

\* the update rejects: a transient error, or the event is gone already
LoopUpdateFail(p) ==
    /\ UpdateDue(p)
    /\ IF StoreHas(gcal, CurEvent(p).id) THEN Transient ELSE UNCHANGED failures
    /\ Log(p, Call("update", CurEvent(p).id, updatedEvent(p), FALSE))
    /\ Catch(p)
    /\ UNCHANGED <<fn, pg, globalE, inflight, notion, gcal, nextEventId, started, pages, events, i, j,
                   fetched, overlap>>

(* ------------------------------ syncNotion() -------------------------- *)
\* for (const [, page] of pages)
\*     await calendarClient.events.insert({requestBody: createEvent(page)})
InsertOk(p) ==
    /\ pc[p] = "syncNotion"
    /\ gcal' = StoreInsert(gcal, nextEventId, createEvent(pages[p][j[p]]))
    /\ nextEventId' = nextEventId + 1
    /\ Log(p, Call("insert", nextEventId, createEvent(pages[p][j[p]]), TRUE))
    /\ j' = [j EXCEPT ![p] = @ + 1]
    /\ pc' = [pc EXCEPT ![p] = IF j[p] + 1 <= Len(pages[p]) THEN "syncNotion" ELSE "done"]
    /\ UNCHANGED <<fn, pg, globalE, inflight, notion, started, pages, events, i, fetched, overlap,
                   errLog, failures>>

InsertFail(p) ==
    /\ pc[p] = "syncNotion"
    /\ Transient
    /\ Log(p, Call("insert", 0, createEvent(pages[p][j[p]]), FALSE))
    /\ Catch(p)
    /\ UNCHANGED <<fn, pg, globalE, inflight, notion, gcal, nextEventId, started, pages, events, i, j,
                   fetched, overlap>>

Step(p) ==
    \/ GetPagesOk(p)
    \/ GetPagesFail(p)
    \/ GetEventsOk(p)
    \/ GetEventsFail(p)
    \/ LoopDeleteOk(p)
    \/ LoopDeleteFail(p)
    \/ LoopUpdateOk(p)
    \/ LoopUpdateFail(p)
    \/ InsertOk(p)
    \/ InsertFail(p)

Next == Tick \/ \E p \in Passes : Step(p)

Spec == Init /\ [][Next]_vars

\* the same database, a calendar in which no two events share a description
InitUnique ==
    /\ Init
    /\ \A k1, k2 \in 1..Len(gcal) :
          k1 # k2 => gcal[k1].description # gcal[k2].description

SpecUnique == InitUnique /\ [][Next]_vars

\* every awaited store call eventually returns or fails
SpecFair == Spec /\ \A p \in Passes : WF_vars(Step(p))

(* ------------------------------ the timer goes on --------------------- *)
\* setInterval fires again after the passes counted by `started`: the new
\* pass is followed in the place of a pass that has ended
Restart(p) ==
    /\ started = MaxPasses
    /\ pc[p] \in {"done", "failed"}
    /\ pc' = [pc EXCEPT ![p] = "getPages"]
    /\ pages' = [pages EXCEPT ![p] = <<>>]
    /\ events' = [events EXCEPT ![p] = <<>>]
    /\ i' = [i EXCEPT ![p] = 1]
    /\ j' = [j EXCEPT ![p] = 1]
    /\ fetched' = [fetched EXCEPT ![p] = <<>>]
    /\ calls' = [calls EXCEPT ![p] = <<>>]
    /\ overlap' = [q \in Passes |->
                      IF q = p THEN \E r \in Passes : Running(r)
                      ELSE overlap[q] \/ Running(q)]
    /\ UNCHANGED <<fn, pg, globalE, inflight, notion, gcal, nextEventId, started, errLog, failures>>

NextLive == Next \/ \E p \in Passes : Restart(p)

\* the timer keeps firing, and every awaited store call eventually returns
\* or fails
SpecLive ==
    /\ Init
    /\ [][NextLive]_vars
    /\ WF_vars(Tick)
    /\ \A p \in Passes : WF_vars(Restart(p)) /\ WF_vars(Step(p))

(* ---------------- reducePage() and createEvent() on one page ---------- *)
\* the variables of the reconciler, and their values while it does not run
progVars == <<notion, gcal, nextEventId, started, pc, pages, events, i, j,
              fetched, calls, overlap, errLog, failures, globalE, inflight>>

ProgramOff ==
    /\ notion = <<>>
    /\ gcal = <<>>
    /\ nextEventId = 1
    /\ started = 0
    /\ pc = [p \in Passes |-> "idle"]
    /\ pages = [p \in Passes |-> <<>>]
    /\ events = [p \in Passes |-> <<>>]
    /\ i = [p \in Passes |-> 1]
    /\ j = [p \in Passes |-> 1]
    /\ fetched = [p \in Passes |-> <<>>]
    /\ calls = [p \in Passes |-> <<>>]
    /\ overlap = [p \in Passes |-> FALSE]
    /\ errLog = 0
    /\ failures = 0
    /\ globalE = Undefined
    /\ inflight = [p \in Passes |-> NoRequest]

\* U+0336, the combining long stroke overlay
Stroke == "\\u0336"

\* text.split(''), on the titles of this model
Split(text) ==
    CASE text = ""            -> <<>>
      [] text = "HW1"         -> <<"H", "W", "1">>
      [] text = "[CS101] HW1" -> <<"[", "C", "S", "1", "0", "1", "]", " ", "H", "W", "1">>

\* chars.join('')
RECURSIVE Join(_)
Join(chars) == IF chars = <<>> THEN "" ELSE Head(chars) \o Join(Tail(chars))

\* text.split('').map(char => char + '̶').join('')
strikeThrough(text) ==
    Join([k \in 1..Len(Split(text)) |-> Split(text)[k] \o Stroke])

\* createEvent of src/index.js: start and end always carry dateTime, the
\* title is struck through when the status is "Done"
createEventIndexJs(page) ==
    LET summary == IF page.status = "Done"
                   THEN strikeThrough(baseTitle(page))
                   ELSE baseTitle(page)
    IN  Body(summary, page.id, Timed(page.date), Timed(page.date))

\* pageToEventTitle of src/unnamed/part_002
pageToEventTitle(page) ==
    IF page.status = "Done"
    THEN DoneGlyph \o " " \o baseTitle(page)
    ELSE NotDoneGlyph \o " " \o baseTitle(page)

\* The pages the database may serve: every property may be empty.  A Date
\* that is not empty holds a start, an end or both (the service always
\* sets start; reducePage does not rely on it when there is an end).
UpstreamPages ==
    { q \in [id     : {"abc"},
             type   : {"Homework", "Lecture"},
             name   : {Undefined, "HW1"},
             course : {Undefined, "CS101"},
             dated  : BOOLEAN,
             start  : {Undefined, "2024-03-01", "2024-03-01T10:00:00+00:00"},
             end    : {Undefined, "2024-03-02", "2024-03-02T09:00:00-05:00"},
             status : {Undefined, "Done", "Todo"}] :
        q.dated <=> (q.start # Undefined \/ q.end # Undefined) }

InitFn ==
    /\ fn \in { [stage |-> "page", page |-> q] : q \in UpstreamPages }
    /\ pg = PgOff
    /\ ProgramOff

\* reducePage(page); the query of getPages() returns the page when the
\* filter accepts it
ApplyReducePage ==
    /\ fn.stage = "page"
    /\ fn' = [stage |-> "reduced", page |-> fn.page,
              returned |-> pageFilter(fn.page), rec |-> reducePage(fn.page)]
    /\ UNCHANGED <<pg, progVars>>

\* createEvent(page) of part_001 on a page that getPages() returned
ApplyCreateEvent ==
    /\ fn.stage = "reduced"
    /\ fn.returned
    /\ fn' = IF createEventThrows(fn.rec)
             THEN [stage |-> "threw", page |-> fn.page, rec |-> fn.rec]
             ELSE [stage |-> "event", page |-> fn.page, rec |-> fn.rec,
                   event |-> createEvent(fn.rec)]
    /\ UNCHANGED <<pg, progVars>>

\* createEvent(page) of src/index.js on the page getPage() retrieved
ApplyCreateEventIndexJs ==
    /\ fn.stage = "reduced"
    /\ fn' = [stage |-> "eventIndexJs", page |-> fn.page, rec |-> fn.rec,
              event |-> createEventIndexJs(fn.rec)]
    /\ UNCHANGED <<pg, progVars>>

\* pageToEventTitle(page) of part_002, whose query asks for a Date
ApplyPageToEventTitle ==
    /\ fn.stage = "reduced"
    /\ fn.page.dated
    /\ fn' = [stage |-> "title", page |-> fn.page, rec |-> fn.rec,
              title |-> pageToEventTitle(fn.rec)]
    /\ UNCHANGED <<pg, progVars>>

NextFn ==
    \/ ApplyReducePage
    \/ ApplyCreateEvent
    \/ ApplyCreateEventIndexJs
    \/ ApplyPageToEventTitle

SpecFn == InitFn /\ [][NextFn]_vars

(* ---------------- getPages() and getEvents() page by page ------------- *)
\* no cursor: undefined in the first request, null in the last response
NoCursor == 0

\* The service answering a request for the items from cursor on with at
\* most n of them, and with the cursor of the rest when there is a rest.
Serve(items, cursor, n) ==
    LET from == IF cursor = NoCursor THEN 1 ELSE cursor
        to   == IF from + n - 1 < Len(items) THEN from + n - 1 ELSE Len(items)
    IN  [cursor  |-> cursor,
         results |-> SubSeq(items, from, to),
         next    |-> IF to < Len(items) THEN to + 1 ELSE NoCursor]

\* the loop left after the first response
StopAfterFirst(cursor) == FALSE

\* do { ... } while (cursor)
KeepPaging(cursor) == cursor # NoCursor

\* Map.set: a new key goes to the end, a known key keeps its place and
\* takes the new value
MapSet(m, r) ==
    IF PagesHas(m, r.id)
    THEN [k \in 1..Len(m) |-> IF m[k].id = r.id THEN r ELSE m[k]]
    ELSE Append(m, r)

\* new Map(pages.map(page => [page.id, reducePage(page)]))
RECURSIVE NewMap(_, _)
NewMap(m, rawPages) ==
    IF rawPages = <<>> THEN m
    ELSE NewMap(MapSet(m, reducePage(Head(rawPages))), Tail(rawPages))

\* what the service has to serve: the pages of a database that pass the
\* filter of the query (a page that changes while it is being read may be
\* served twice), or the events of a calendar
ServedPageLists ==
    UNION { { SelectSeq(db, pageFilter) :
                db \in [1..n -> {PageA1, PageA2, PageB1, PageB2}] } :
            n \in 0..MaxItems }

ServedEventLists ==
    UNION { { Numbered(bs, 1) : bs \in [1..n -> InitBodies] } : n \in 0..MaxItems }

Paging(stage, items) ==
    [stage |-> stage, items |-> items, acc |-> <<>>, cursor |-> NoCursor,
     log |-> <<>>, result |-> <<>>]

InitPg ==
    /\ pg \in { Paging("getPages", s) : s \in ServedPageLists }
              \cup { Paging("getEvents", s) : s \in ServedEventLists }
    /\ fn = FnOff
    /\ ProgramOff

\* one round of the loop of getPages(): the request with start_cursor, the
\* response pushed to pages; after the last round the Map is built
GetPagesRequest ==
    /\ pg.stage = "getPages"
    /\ \E n \in 1..PageSize :
          LET response == Serve(pg.items, pg.cursor, n)
              acc == pg.acc \o response.results
          IN  pg' = [pg EXCEPT
                       !.acc = acc,
                       !.cursor = response.next,
                       !.log = Append(@, response),
                       !.stage = IF KeepPaging(response.next)
                                 THEN "getPages" ELSE "pagesDone",
                       !.result = IF KeepPaging(response.next)
                                  THEN <<>> ELSE NewMap(<<>>, acc)]
    /\ UNCHANGED <<fn, progVars>>

\* one round of the loop of getEvents(): the request with pageToken, the
\* response pushed to events; after the last round events is returned
GetEventsRequest ==
    /\ pg.stage = "getEvents"
    /\ \E n \in 1..PageSize :
          LET response == Serve(pg.items, pg.cursor, n)
              acc == pg.acc \o response.results
          IN  pg' = [pg EXCEPT
                       !.acc = acc,
                       !.cursor = response.next,
                       !.log = Append(@, response),
                       !.stage = IF KeepPaging(response.next)
                                 THEN "getEvents" ELSE "eventsDone",
                       !.result = IF KeepPaging(response.next)
                                  THEN <<>> ELSE acc]
    /\ UNCHANGED <<fn, progVars>>

NextPg == GetPagesRequest \/ GetEventsRequest

SpecPg == InitPg /\ [][NextPg]_vars

(* ---------------- src/unnamed/part_000: passes that share e ------------- *)
\* the filter of the query of part_000 and of src/index.js: Type equals
\* Lab, Quiz, Homework, Project or Extra Credit; Date is not asked for
pageFilterPart000(page) ==
    page.type \in {"Lab", "Quiz", "Homework", "Project", "Extra Credit"}

\* reducePage and createEvent of part_000 have the text of reducePage of
\* part_001 and of createEvent of src/index.js
reducePagePart000(page) == reducePage(page)
createEventPart000(page) == createEventIndexJs(page)

\* getPages() of part_000: the Map of the reduced pages the query returns
getPagesPart000(db) ==
    LET results == SelectSeq(db, pageFilterPart000)
    IN  [k \in 1..Len(results) |-> reducePagePart000(results[k])]

\* what pages.retrieve({ page_id: pageId }) finds: the page with that id,
\* whether or not it passes the filter of the query
Retrievable(db, pageId) == PagesHas(db, pageId)
Retrieve(db, pageId) == PagesGet(db, pageId)

\* a store call that has been issued and is awaited
Request(op, id, body) == [op |-> op, eventId |-> id, requestBody |-> body]

\* a call of notionClient.pages.retrieve made for the event e.id, and how
\* it ended: "found", "missing" (no such page) or "transient"
Lookup(id, outcome) ==
    [op |-> "retrieve", eventId |-> id, body |-> NoBody,
     ok |-> (outcome = "found"), outcome |-> outcome]

\* setInterval(sync, 30000): sync() is called on every period and issues
\* the query of getPages()
Part000Tick ==
    /\ started < MaxPasses
    /\ LET p == started + 1 IN
        /\ started' = p
        /\ pc' = [pc EXCEPT ![p] = "getPages"]
        /\ overlap' = [q \in Passes |->
                          IF q = p THEN \E r \in Passes : Running(r)
                          ELSE overlap[q] \/ Running(q)]
    /\ UNCHANGED <<fn, pg, globalE, inflight, notion, gcal, nextEventId, pages,
                   events, i, j, fetched, calls, errLog, failures>>

\* const pages = await getPages(); syncGCal(pages) issues the list call
Part000GetPages(p) ==
    /\ pc[p] = "getPages"
    /\ pages' = [pages EXCEPT ![p] = getPagesPart000(notion)]
    /\ fetched' = [fetched EXCEPT ![p] = getPagesPart000(notion)]
    /\ Log(p, Call("query", 0, NoBody, TRUE))
    /\ pc' = [pc EXCEPT ![p] = "getEvents"]
    /\ UNCHANGED <<fn, pg, globalE, inflight, notion, gcal, nextEventId, started,
                   events, i, j, overlap, errLog, failures>>

\* for (e of events) at position k, up to the next awaited call: e is not
\* declared, so the assignment goes to the one global e of the process;
\* const pageId = e.description; then either the delete call is issued
\* with eventId e.id, or getPage(pageId) is called; after the last event
\* syncNotion(pages) issues its first insert
Part000Iterate(p, pgs, evs, k) ==
    /\ pages' = [pages EXCEPT ![p] = pgs]
    /\ i' = [i EXCEPT ![p] = k]
    /\ j' = [j EXCEPT ![p] = 1]
    /\ IF k <= Len(evs)
       THEN /\ globalE' = evs[k]
            /\ IF ~PagesHas(pgs, globalE'.description)
               THEN /\ inflight' = [inflight EXCEPT ![p] =
                                        Request("delete", globalE'.id, NoBody)]
                    /\ pc' = [pc EXCEPT ![p] = "delete"]
               ELSE /\ inflight' = [inflight EXCEPT ![p] = NoRequest]
                    /\ pc' = [pc EXCEPT ![p] = "getPage"]
       ELSE /\ globalE' = globalE
            /\ inflight' = [inflight EXCEPT ![p] = NoRequest]
            /\ pc' = [pc EXCEPT ![p] = IF pgs # <<>> THEN "syncNotion" ELSE "done"]

\* const events = await getEvents()
Part000GetEvents(p) ==
    /\ pc[p] = "getEvents"
    /\ events' = [events EXCEPT ![p] = getEvents(gcal)]
    /\ Log(p, Call("list", 0, NoBody, TRUE))
    /\ Part000Iterate(p, pages[p], getEvents(gcal), 1)
    /\ UNCHANGED <<fn, pg, notion, gcal, nextEventId, started, fetched, overlap,
                   errLog, failures>>

\* await calendarClient.events.delete(...) returns
Part000Delete(p) ==
    /\ pc[p] = "delete"
    /\ StoreHas(gcal, inflight[p].eventId)
    /\ gcal' = StoreDelete(gcal, inflight[p].eventId)
    /\ Log(p, Call("delete", inflight[p].eventId, NoBody, TRUE))
    /\ Part000Iterate(p, pages[p], events[p], i[p] + 1)
    /\ UNCHANGED <<fn, pg, notion, nextEventId, started, events, fetched, overlap,
                   errLog, failures>>

\* const page = await getPage(pageId) returns the reduced page; then
\* const event = createEvent(page), and the update call is issued with
\* eventId e.id: e is read now, after the await
Part000GetPage(p) ==
    /\ pc[p] = "getPage"
    /\ Retrievable(notion, events[p][i[p]].description)
    /\ LET pageId == events[p][i[p]].description
           page == reducePagePart000(Retrieve(notion, pageId))
           event == createEventPart000(page)
       IN  /\ inflight' = [inflight EXCEPT ![p] = Request("update", globalE.id, event)]
           /\ Log(p, Lookup(events[p][i[p]].id, "found"))
    /\ pc' = [pc EXCEPT ![p] = "update"]
    /\ UNCHANGED <<fn, pg, globalE, notion, gcal, nextEventId, started, pages,
                   events, i, j, fetched, overlap, errLog, failures>>

\* pages.retrieve rejects and getPage returns undefined from its catch;
\* createEvent(undefined) throws at page.id, and sync(), which has no
\* try, ends with that error
Part000GetPageCaught(p) ==
    /\ pc[p] = "getPage"
    /\ Transient
    /\ Log(p, Lookup(events[p][i[p]].id, "transient"))
    /\ pc' = [pc EXCEPT ![p] = "failed"]
    /\ UNCHANGED <<fn, pg, globalE, inflight, notion, gcal, nextEventId, started,
                   pages, events, i, j, fetched, overlap, errLog>>

\* await calendarClient.events.update(...) returns; pages.delete(page.id)
Part000Update(p) ==
    /\ pc[p] = "update"
    /\ StoreHas(gcal, inflight[p].eventId)
    /\ gcal' = StoreUpdate(gcal, inflight[p].eventId, inflight[p].requestBody)
    /\ Log(p, Call("update", inflight[p].eventId, inflight[p].requestBody, TRUE))
    /\ Part000Iterate(p, PagesDelete(pages[p], inflight[p].requestBody.description),
                      events[p], i[p] + 1)
    /\ UNCHANGED <<fn, pg, notion, nextEventId, started, events, fetched, overlap,
                   errLog, failures>>

\* for (const [pageId, page] of pages)
\*     await calendarClient.events.insert({requestBody: createEvent(page)})
Part000Insert(p) ==
    /\ pc[p] = "syncNotion"
    /\ gcal' = StoreInsert(gcal, nextEventId, createEventPart000(pages[p][j[p]]))
    /\ nextEventId' = nextEventId + 1
    /\ Log(p, Call("insert", nextEventId, createEventPart000(pages[p][j[p]]), TRUE))
    /\ j' = [j EXCEPT ![p] = @ + 1]
    /\ pc' = [pc EXCEPT ![p] = IF j[p] + 1 <= Len(pages[p]) THEN "syncNotion" ELSE "done"]
    /\ UNCHANGED <<fn, pg, globalE, inflight, notion, started, pages, events, i,
                   fetched, overlap, errLog, failures>>

\* the call the pass awaits, as the log keeps it when it rejects
Part000Awaited(p) ==
    CASE pc[p] = "getPages"   -> Call("query", 0, NoBody, FALSE)
      [] pc[p] = "getEvents"  -> Call("list", 0, NoBody, FALSE)
      [] pc[p] = "delete"     -> Call("delete", inflight[p].eventId, NoBody, FALSE)
      [] pc[p] = "update"     -> Call("update", inflight[p].eventId,
                                      inflight[p].requestBody, FALSE)
      [] pc[p] = "syncNotion" -> Call("insert", 0, createEventPart000(pages[p][j[p]]), FALSE)

\* an awaited store call rejects, by a transient error or because the
\* event of the request is gone: sync() has no try, the pass ends there
\* and nothing is logged by the program
Part000Reject(p) ==
    /\ pc[p] \in {"getPages", "getEvents", "delete", "update", "syncNotion"}
    /\ IF pc[p] \in {"delete", "update"} /\ ~StoreHas(gcal, inflight[p].eventId)
       THEN UNCHANGED failures
       ELSE Transient
    /\ Log(p, Part000Awaited(p))
    /\ pc' = [pc EXCEPT ![p] = "failed"]
    /\ UNCHANGED <<fn, pg, globalE, inflight, notion, gcal, nextEventId, started,
                   pages, events, i, j, fetched, overlap, errLog>>

Part000Step(p) ==
    \/ Part000GetPages(p)
    \/ Part000GetEvents(p)
    \/ Part000Delete(p)
    \/ Part000GetPage(p)
    \/ Part000GetPageCaught(p)
    \/ Part000Update(p)
    \/ Part000Insert(p)
    \/ Part000Reject(p)

NextPart000 == Part000Tick \/ \E p \in Passes : Part000Step(p)

\* the calendars part_000 may find: events it has made earlier, a stale
\* event of page a, an event of somebody else, an event without description
InitBodiesPart000 ==
    { createEventPart000(reducePagePart000(PageA1)),
      createEventPart000(reducePagePart000(PageB1)),
      Body("HW1", "a",
           Timed("2024-02-01T08:00:00+00:00"), Timed("2024-02-01T08:00:00+00:00")),
      Body("lunch", "xyz", AllDay("2024-03-02"), AllDay("2024-03-02")),
      Body("dentist", Undefined,
           Timed("2024-02-01T08:00:00+00:00"), Timed("2024-02-01T08:00:00+00:00")) }

InitPart000 ==
    /\ notion \in SourceStores
    /\ gcal \in UNION { { Numbered(bs, 1) : bs \in [1..n -> InitBodiesPart000] } :
                        n \in 0..InitEvents }
    /\ nextEventId = Len(gcal) + 1
    /\ started = 0
    /\ pc = [p \in Passes |-> "idle"]
    /\ pages = [p \in Passes |-> <<>>]
    /\ events = [p \in Passes |-> <<>>]
    /\ i = [p \in Passes |-> 1]
    /\ j = [p \in Passes |-> 1]
    /\ fetched = [p \in Passes |-> <<>>]
    /\ calls = [p \in Passes |-> <<>>]
    /\ overlap = [p \in Passes |-> FALSE]
    /\ errLog = 0
    /\ failures = 0
    /\ globalE = Undefined
    /\ inflight = [p \in Passes |-> NoRequest]
    /\ fn = FnOff
    /\ pg = PgOff

SpecPart000 == InitPart000 /\ [][NextPart000]_vars

(* ---------------- src/index.js: one pass, a lookup per event ----------- *)
\* sync(); at line 64: setInterval is commented out, the module calls
\* sync() once when it is loaded, and that call is followed as pass Once
Once == 1

\* pageFilter, reducePage and getPages of src/index.js have the text of
\* those of part_000
pageFilterIndexJs(page) ==
    page.type \in {"Lab", "Quiz", "Homework", "Project", "Extra Credit"}

reducePageIndexJs(page) == reducePage(page)

getPagesIndexJs(db) ==
    LET results == SelectSeq(db, pageFilterIndexJs)
    IN  [k \in 1..Len(results) |-> reducePageIndexJs(results[k])]

\* const pages = await getPages(); syncGCal(pages) issues the list call
IndexJsGetPages ==
    /\ pc[Once] = "getPages"
    /\ pages' = [pages EXCEPT ![Once] = getPagesIndexJs(notion)]
    /\ fetched' = [fetched EXCEPT ![Once] = getPagesIndexJs(notion)]
    /\ Log(Once, Call("query", 0, NoBody, TRUE))
    /\ pc' = [pc EXCEPT ![Once] = "getEvents"]
    /\ UNCHANGED <<fn, pg, globalE, inflight, notion, gcal, nextEventId, started,
                   events, i, j, overlap, errLog, failures>>

\* for (e of events) at position k, up to the next awaited call:
\* const pageId = e.description; getPage(pageId) is called for every
\* event; after the last event syncNotion(pages) issues its first insert
IndexJsIterate(pgs, evs, k) ==
    /\ pages' = [pages EXCEPT ![Once] = pgs]
    /\ i' = [i EXCEPT ![Once] = k]
    /\ j' = [j EXCEPT ![Once] = 1]
    /\ inflight' = [inflight EXCEPT ![Once] = NoRequest]
    /\ IF k <= Len(evs)
       THEN /\ globalE' = evs[k]
            /\ pc' = [pc EXCEPT ![Once] = "getPage"]
       ELSE /\ globalE' = globalE
            /\ pc' = [pc EXCEPT ![Once] = IF pgs # <<>> THEN "syncNotion" ELSE "done"]

\* const events = await getEvents()
IndexJsGetEvents ==
    /\ pc[Once] = "getEvents"
    /\ events' = [events EXCEPT ![Once] = getEvents(gcal)]
    /\ Log(Once, Call("list", 0, NoBody, TRUE))
    /\ IndexJsIterate(pages[Once], getEvents(gcal), 1)
    /\ UNCHANGED <<fn, pg, notion, gcal, nextEventId, started, fetched, overlap,
                   errLog, failures>>

\* getPage(pageId) returns the reduced page: the else branch builds
\* createEvent(page) and issues the update call with eventId e.id
IndexJsGetPage ==
    /\ pc[Once] = "getPage"
    /\ Retrievable(notion, events[Once][i[Once]].description)
    /\ LET pageId == events[Once][i[Once]].description
           page == reducePageIndexJs(Retrieve(notion, pageId))
           event == createEventIndexJs(page)
       IN  inflight' = [inflight EXCEPT ![Once] = Request("update", globalE.id, event)]
    /\ Log(Once, Lookup(events[Once][i[Once]].id, "found"))
    /\ pc' = [pc EXCEPT ![Once] = "update"]
    /\ UNCHANGED <<fn, pg, globalE, notion, gcal, nextEventId, started, pages,
                   events, i, j, fetched, overlap, errLog, failures>>

\* pages.retrieve rejects because there is no page with that id (or the
\* description is no id at all): catch (error) { return undefined; } and
\* if (!page) issues the delete call with eventId e.id
IndexJsGetPageMissing ==
    /\ pc[Once] = "getPage"
    /\ ~Retrievable(notion, events[Once][i[Once]].description)
    /\ inflight' = [inflight EXCEPT ![Once] = Request("delete", globalE.id, NoBody)]
    /\ Log(Once, Lookup(events[Once][i[Once]].id, "missing"))
    /\ pc' = [pc EXCEPT ![Once] = "delete"]
    /\ UNCHANGED <<fn, pg, globalE, notion, gcal, nextEventId, started, pages,
                   events, i, j, fetched, overlap, errLog, failures>>

\* pages.retrieve rejects by a transient error: the same catch returns
\* undefined, and if (!page) issues the delete call as well
IndexJsGetPageTransient ==
    /\ pc[Once] = "getPage"
    /\ Transient
    /\ inflight' = [inflight EXCEPT ![Once] = Request("delete", globalE.id, NoBody)]
    /\ Log(Once, Lookup(events[Once][i[Once]].id, "transient"))
    /\ pc' = [pc EXCEPT ![Once] = "delete"]
    /\ UNCHANGED <<fn, pg, globalE, notion, gcal, nextEventId, started, pages,
                   events, i, j, fetched, overlap, errLog>>

\* await calendarClient.events.delete(...) returns
IndexJsDelete ==
    /\ pc[Once] = "delete"
    /\ gcal' = StoreDelete(gcal, inflight[Once].eventId)
    /\ Log(Once, Call("delete", inflight[Once].eventId, NoBody, TRUE))
    /\ IndexJsIterate(pages[Once], events[Once], i[Once] + 1)
    /\ UNCHANGED <<fn, pg, notion, nextEventId, started, events, fetched, overlap,
                   errLog, failures>>

\* await calendarClient.events.update(...) returns; pages.delete(page.id)
IndexJsUpdate ==
    /\ pc[Once] = "update"
    /\ gcal' = StoreUpdate(gcal, inflight[Once].eventId, inflight[Once].requestBody)
    /\ Log(Once, Call("update", inflight[Once].eventId, inflight[Once].requestBody, TRUE))
    /\ IndexJsIterate(PagesDelete(pages[Once], inflight[Once].requestBody.description),
                      events[Once], i[Once] + 1)
    /\ UNCHANGED <<fn, pg, notion, nextEventId, started, events, fetched, overlap,
                   errLog, failures>>

\* for (const [pageId, page] of pages)
\*     await calendarClient.events.insert({requestBody: createEvent(page)})
IndexJsInsert ==
    /\ pc[Once] = "syncNotion"
    /\ gcal' = StoreInsert(gcal, nextEventId, createEventIndexJs(pages[Once][j[Once]]))
    /\ nextEventId' = nextEventId + 1
    /\ Log(Once, Call("insert", nextEventId, createEventIndexJs(pages[Once][j[Once]]), TRUE))
    /\ j' = [j EXCEPT ![Once] = @ + 1]
    /\ pc' = [pc EXCEPT ![Once] = IF j[Once] + 1 <= Len(pages[Once])
                                  THEN "syncNotion" ELSE "done"]
    /\ UNCHANGED <<fn, pg, globalE, inflight, notion, started, pages, events, i,
                   fetched, overlap, errLog, failures>>

\* the call the pass awaits, as the log keeps it when it rejects
IndexJsAwaited ==
    CASE pc[Once] = "getPages"   -> Call("query", 0, NoBody, FALSE)
      [] pc[Once] = "getEvents"  -> Call("list", 0, NoBody, FALSE)
      [] pc[Once] = "delete"     -> Call("delete", inflight[Once].eventId, NoBody, FALSE)
      [] pc[Once] = "update"     -> Call("update", inflight[Once].eventId,
                                         inflight[Once].requestBody, FALSE)
      [] pc[Once] = "syncNotion" ->
             Call("insert", 0, createEventIndexJs(pages[Once][j[Once]]), FALSE)

\* an awaited store call other than the lookup rejects: sync() has no
\* try, the pass ends there and nothing is logged by the program
IndexJsReject ==
    /\ pc[Once] \in {"getPages", "getEvents", "delete", "update", "syncNotion"}
    /\ Transient
    /\ Log(Once, IndexJsAwaited)
    /\ pc' = [pc EXCEPT ![Once] = "failed"]
    /\ UNCHANGED <<fn, pg, globalE, inflight, notion, gcal, nextEventId, started,
                   pages, events, i, j, fetched, overlap, errLog>>

NextIndexJs ==
    \/ IndexJsGetPages
    \/ IndexJsGetEvents
    \/ IndexJsGetPage
    \/ IndexJsGetPageMissing
    \/ IndexJsGetPageTransient
    \/ IndexJsDelete
    \/ IndexJsUpdate
    \/ IndexJsInsert
    \/ IndexJsReject

\* the calendars src/index.js may find: events it has made earlier (of
\* page a, and of page b while b was a lab), a stale event of page a, an
\* event of somebody else, an event without description
InitBodiesIndexJs ==
    { createEventIndexJs(reducePageIndexJs(PageA1)),
      createEventIndexJs(reducePageIndexJs(PageB1)),
      Body("HW1", "a",
           Timed("2024-02-01T08:00:00+00:00"), Timed("2024-02-01T08:00:00+00:00")),
      Body("lunch", "xyz", AllDay("2024-03-02"), AllDay("2024-03-02")),
      Body("dentist", Undefined,
           Timed("2024-02-01T08:00:00+00:00"), Timed("2024-02-01T08:00:00+00:00")) }

\* the module has been loaded: sync() has been called and awaits the query
InitIndexJs ==
    /\ notion \in SourceStores
    /\ gcal \in UNION { { Numbered(bs, 1) : bs \in [1..n -> InitBodiesIndexJs] } :
                        n \in 0..InitEvents }
    /\ nextEventId = Len(gcal) + 1
    /\ started = 1
    /\ pc = [p \in Passes |-> IF p = Once THEN "getPages" ELSE "idle"]
    /\ pages = [p \in Passes |-> <<>>]
    /\ events = [p \in Passes |-> <<>>]
    /\ i = [p \in Passes |-> 1]
    /\ j = [p \in Passes |-> 1]
    /\ fetched = [p \in Passes |-> <<>>]
    /\ calls = [p \in Passes |-> <<>>]
    /\ overlap = [p \in Passes |-> FALSE]
    /\ errLog = 0
    /\ failures = 0
    /\ globalE = Undefined
    /\ inflight = [p \in Passes |-> NoRequest]
    /\ fn = FnOff
    /\ pg = PgOff

SpecIndexJs == InitIndexJs /\ [][NextIndexJs]_vars

(* ------------------------------ vocabulary ---------------------------- *)
Ids(recs) == { recs[k].id : k \in 1..Len(recs) }

\* the positions of the calls of pass p with operation op
CallsOf(p, op) == { k \in 1..Len(calls[p]) : calls[p][k].op = op }

MutationOps == {"update", "insert", "delete"}
Mutations(p) == { k \in 1..Len(calls[p]) : calls[p][k].op \in MutationOps }

\* pass p has completed, respectively has run from start to end alone
Completed(p) == pc[p] = "done"
Alone(p) == ~overlap[p]

\* the loop of syncGCal of pass p has handled position k of its event list:
\* the iteration is over, or its call has failed
Reached(p, k) ==
    /\ k \in 1..Len(events[p])
    /\ k < i[p] \/ (k = i[p] /\ pc[p] = "failed")

\* event k of pass p references a record of the fetched Map
Linked(p, k) == PagesHas(fetched[p], events[p][k].description)
Wanted(p, k) == createEvent(PagesGet(fetched[p], events[p][k].description))
\* no earlier event of the list references the same record
FirstLinked(p, k) ==
    /\ Linked(p, k)
    /\ \A h \in 1..(k - 1) : events[p][h].description # events[p][k].description

\* The equality rule of the specification: both all-day with the same date,
\* or both timed with the same instant.
SameMoment(d1, d2) ==
    \/ /\ d1.date # Undefined /\ d1.dateTime = Undefined
       /\ d2.date # Undefined /\ d2.dateTime = Undefined
       /\ d1.date = d2.date
    \/ /\ d1.date = Undefined /\ d1.dateTime # Undefined
       /\ d2.date = Undefined /\ d2.dateTime # Undefined
       /\ DateParse(d1.dateTime) # NaN
       /\ DateParse(d1.dateTime) = DateParse(d2.dateTime)

EqualityRule(e1, e2) ==
    /\ e1.summary = e2.summary
    /\ e1.description = e2.description
    /\ SameMoment(e1.start, e2.start)
    /\ SameMoment(e1.end, e2.end)

(* ------------------------------ C1 ------------------------------------ *)
\* C1 (idempotence): when a pass has completed without error and alone, and
\* the next pass then runs alone on the same database and completes, that
\* second pass issues no update, no insert and no delete call.
C1_SecondPassIssuesNothing ==
    \A p \in Passes :
        (p > 1 /\ Completed(p - 1) /\ Alone(p - 1) /\ Completed(p) /\ Alone(p))
            => Mutations(p) = {}

(* ------------------------------ C2 ------------------------------------ *)
\* the calendar holds, for every record, exactly one event that references
\* it, and that event is equal to createEvent(record) under the equality
\* rule; it holds no other event
InSync(recs, cal) ==
    /\ \A n \in 1..Len(recs) :
          /\ Cardinality({ k \in 1..Len(cal) : cal[k].description = recs[n].id }) = 1
          /\ \A k \in 1..Len(cal) :
                cal[k].description = recs[n].id
                    => EqualityRule(BodyOf(cal[k]), createEvent(recs[n]))
    /\ \A k \in 1..Len(cal) : cal[k].description \in Ids(recs)

\* C2 (postcondition of a pass): at the moment a pass that ran alone
\* completes without error, the calendar is in sync with the records the
\* pass fetched.
C2_PassLeavesCalendarInSync ==
    [][\A p \in Passes :
          (pc[p] # "done" /\ pc'[p] = "done" /\ ~overlap'[p])
              => InSync(fetched'[p], gcal')]_vars

C2_Witness ==
    \E p \in Passes :
        /\ Completed(p) /\ Alone(p)
        /\ \E k \in CallsOf(p, "delete") : calls[p][k].ok
        /\ \E k \in CallsOf(p, "update") : calls[p][k].ok
        /\ \E k \in CallsOf(p, "insert") : calls[p][k].ok
        /\ InSync(fetched[p], gcal)

(* ------------------------------ C3 ------------------------------------ *)
\* C3 (at most one event per record): from a calendar in which no two
\* events share a description, no two events of the calendar ever carry the
\* same record id as description.
C3_NoTwoEventsForOneRecord ==
    \A k1, k2 \in 1..Len(gcal) :
        (k1 # k2 /\ gcal[k1].description = gcal[k2].description)
            => gcal[k1].description \notin { notion[n].id : n \in 1..Len(notion) }

(* ------------------------------ C4 ------------------------------------ *)
\* C4 (passes do not overlap): at most one pass is in progress at any time.
C4_AtMostOnePassInProgress ==
    Cardinality({ p \in Passes : Running(p) }) <= 1

(* ------------------------------ C5 ------------------------------------ *)
\* C5 (deletion): for every fetched event the loop has reached and whose
\* description is no key of the fetched Map (an event without description
\* included), the pass has issued exactly one delete call with the event's
\* id, no update call with that id, and no update or insert call whose
\* body carries the event's description.
C5_OrphanDeletedOnce ==
    \A p \in Passes : \A k \in 1..Len(events[p]) :
        (Reached(p, k) /\ ~Linked(p, k)) =>
            /\ Cardinality({ c \in CallsOf(p, "delete") :
                               calls[p][c].eventId = events[p][k].id }) = 1
            /\ \A c \in CallsOf(p, "update") : calls[p][c].eventId # events[p][k].id
            /\ \A c \in CallsOf(p, "update") \cup CallsOf(p, "insert") :
                  calls[p][c].body.description # events[p][k].description

C5_Witness ==
    \E p \in Passes : \E k1, k2 \in 1..Len(events[p]) :
        /\ Completed(p)
        /\ Reached(p, k1) /\ events[p][k1].description = Undefined
        /\ Reached(p, k2) /\ events[p][k2].description = "xyz"
        /\ ~StoreHas(gcal, events[p][k1].id)
        /\ ~StoreHas(gcal, events[p][k2].id)

(* ------------------------------ C6 ------------------------------------ *)
\* C6 (update suppression): for every fetched event the loop has reached
\* that is linked to a fetched record and equal to createEvent(record) under
\* the equality rule (same title and description, same all-day date or same
\* instant), the pass has issued no update call for that event.
C6_NoUpdateForEqualEvent ==
    \A p \in Passes : \A k \in 1..Len(events[p]) :
        (Reached(p, k) /\ Linked(p, k)
            /\ EqualityRule(BodyOf(events[p][k]), Wanted(p, k)))
        => \A c \in CallsOf(p, "update") : calls[p][c].eventId # events[p][k].id

(* ------------------------------ C7 ------------------------------------ *)
\* C7 (eventsEqual): on every fetched event and the event of every fetched
\* record, eventsEqual is true exactly when the equality rule holds.
C7_EventsEqualIsEqualityRule ==
    \A p \in Passes : \A k \in 1..Len(events[p]) : \A n \in 1..Len(fetched[p]) :
        eventsEqual(BodyOf(events[p][k]), createEvent(fetched[p][n]))
            <=> EqualityRule(BodyOf(events[p][k]), createEvent(fetched[p][n]))

(* ------------------------------ C8 ------------------------------------ *)
\* pass p has issued exactly one update call for event k, with body
\* createEvent(record)
UpdatedOnce(p, k) ==
    /\ Cardinality({ c \in CallsOf(p, "update") :
                       calls[p][c].eventId = events[p][k].id }) = 1
    /\ \A c \in CallsOf(p, "update") :
          calls[p][c].eventId = events[p][k].id => calls[p][c].body = Wanted(p, k)

\* C8 as stated (update on difference): every fetched event the loop has
\* reached whose description is the id of a fetched record and which
\* differs from createEvent(record) in title, start or end has received
\* exactly one update call, with body createEvent(record).
C8_EveryLinkedEventUpdated ==
    \A p \in Passes : \A k \in 1..Len(events[p]) :
        (Reached(p, k) /\ Linked(p, k)
            /\ ~EqualityRule(BodyOf(events[p][k]), Wanted(p, k)))
        => UpdatedOnce(p, k)

\* the first event of the fetched list that references a record has
\* received exactly one update call when it differs from createEvent(record)
FirstLinkedUpdated ==
    \A p \in Passes : \A k \in 1..Len(events[p]) :
        (Reached(p, k) /\ FirstLinked(p, k)
            /\ ~EqualityRule(BodyOf(events[p][k]), Wanted(p, k)))
        => UpdatedOnce(p, k)

\* a successful update call leaves the stored event with the title,
\* description, start and end of its request body
UpdateStoresBody ==
    \A p \in Passes :
        calls'[p] # calls[p] =>
            LET c == calls'[p][Len(calls'[p])] IN
            (c.op = "update" /\ c.ok)
               => /\ StoreHas(gcal', c.eventId)
                  /\ BodyOf(StoreGet(gcal', c.eventId)) = c.body

\* C8 as amended: every fetched event the loop has reached that is the
\* first of the fetched list to reference its record, and differs from
\* createEvent(record), has received exactly one update call, with body
\* createEvent(record); and after a successful update call the stored event
\* has the title, description, start and end of createEvent(record).
C8_FirstLinkedEventUpdated ==
    []FirstLinkedUpdated /\ [][UpdateStoresBody]_vars

C8_Witness ==
    \E p \in Passes : \E k1, k2 \in 1..Len(events[p]) :
        /\ k1 < k2
        /\ Reached(p, k1) /\ FirstLinked(p, k1)
        /\ ~EqualityRule(BodyOf(events[p][k1]), Wanted(p, k1))
        /\ Reached(p, k2)
        /\ events[p][k2].description = events[p][k1].description
        /\ \E c \in CallsOf(p, "update") :
              /\ calls[p][c].eventId = events[p][k1].id
              /\ calls[p][c].ok
        /\ StoreHas(gcal, events[p][k1].id)
        /\ BodyOf(StoreGet(gcal, events[p][k1].id)) = Wanted(p, k1)

(* ------------------------------ C9 ------------------------------------ *)
InsertsFor(p, id) ==
    { c \in CallsOf(p, "insert") : calls[p][c].body.description = id }

\* C9 (creation): in a pass that has completed without error, every fetched
\* record whose id is the description of no fetched event has received
\* exactly one insert call, with body createEvent(record); a record whose
\* id is the description of some fetched event has received none.
C9_OneInsertPerUnmatchedRecord ==
    \A p \in Passes : Completed(p) =>
        /\ \A n \in 1..Len(fetched[p]) :
              IF \E k \in 1..Len(events[p]) :
                    events[p][k].description = fetched[p][n].id
              THEN InsertsFor(p, fetched[p][n].id) = {}
              ELSE /\ Cardinality(InsertsFor(p, fetched[p][n].id)) = 1
                   /\ \A c \in InsertsFor(p, fetched[p][n].id) :
                         calls[p][c].body = createEvent(fetched[p][n])
        /\ \A c \in CallsOf(p, "insert") :
              calls[p][c].body.description \in Ids(fetched[p])

C9_Witness ==
    \E p \in Passes :
        /\ Completed(p)
        /\ CallsOf(p, "insert") # {}
        /\ CallsOf(p, "update") = {}
        /\ \E n \in 1..Len(fetched[p]) : \E k \in 1..Len(events[p]) :
              events[p][k].description = fetched[p][n].id

(* ------------------------------ C10 ----------------------------------- *)
\* C10 (abort on error): when a store call of a pass fails, the pass ends
\* there with the error logged and the calendar as the earlier calls of the
\* pass left it; a pass that has ended issues no further call; the timer
\* can still start the next pass, and every pass begins with the record
\* query followed by the event list.
C10_ErrorEndsThePass ==
    [][\A p \in Passes :
          /\ calls'[p] # calls[p] =>
                LET n == Len(calls'[p]) IN
                /\ n = Len(calls[p]) + 1
                /\ ~calls'[p][n].ok =>
                      /\ pc'[p] = "failed"
                      /\ errLog' = errLog + 1
                      /\ gcal' = gcal
                      /\ nextEventId' = nextEventId
                /\ n = 1 => calls'[p][n].op = "query"
                /\ n = 2 => (calls[p][1].ok /\ calls'[p][n].op = "list")
                /\ n > 2 => (calls[p][2].ok /\ calls'[p][n].op \in MutationOps)
          /\ pc[p] = "failed" => (pc'[p] = "failed" /\ calls'[p] = calls[p])
          /\ (pc'[p] = "failed" /\ pc[p] # "failed" /\ started < MaxPasses)
                => (ENABLED Tick)']_vars

C10_Witness ==
    \E p, q \in Passes :
        /\ pc[p] = "failed"
        /\ \E c \in CallsOf(p, "update") :
              /\ calls[p][c].ok
              /\ StoreHas(gcal, calls[p][c].eventId)
              /\ BodyOf(StoreGet(gcal, calls[p][c].eventId)) = calls[p][c].body
        /\ p < q
        /\ ~overlap[q]
        /\ Len(calls[q]) >= 2

(* ------------------------------ C11 ----------------------------------- *)
\* the calendar holds, for every record the query returns, exactly one
\* event equal to createEvent(record), and no other event
Healed == InSync(getPages(notion), gcal)

\* C11 (self-healing): with the database unchanged, the reconciler alone
\* writing to the calendar and finitely many failing calls, under passes
\* started again and again by the timer the calendar eventually is, and
\* from then on stays, in sync with the records, whatever earlier passes
\* that were aborted have left behind.
C11_EventuallyInSyncForever ==
    <>[]Healed

\* a pass has been aborted after a mutation, and later the calendar is in
\* sync although it was not when the aborted pass ended
C11_Witness ==
    /\ Healed
    /\ failures = MaxFailures
    /\ errLog >= 1
    /\ Len(gcal) = 2
    /\ \E p \in Passes :
          /\ Completed(p)
          /\ \E c \in CallsOf(p, "delete") : calls[p][c].ok
          /\ \E c \in CallsOf(p, "insert") : calls[p][c].ok

(* ------------------------------ C12 ----------------------------------- *)
\* the properties of page q that are empty are unset in the reduced page r
AbsentLeftUnset(q, r) ==
    /\ q.name = Undefined => r.name = Undefined
    /\ q.course = Undefined => r.course = Undefined
    /\ ~q.dated => r.date = Undefined
    /\ q.status = Undefined => r.status = Undefined

\* C12 (missing optional fields): whatever properties of a page are empty,
\* reducePage leaves the corresponding fields unset, and createEvent on a
\* page the query returned raises no error.
C12_MissingFieldsTolerated ==
    /\ fn.stage \in {"reduced", "event", "threw"} => AbsentLeftUnset(fn.page, fn.rec)
    /\ fn.stage # "threw"

C12_Witness ==
    /\ fn.stage = "event"
    /\ fn.page.name = Undefined
    /\ fn.page.course = Undefined
    /\ fn.page.status = Undefined
    /\ fn.rec.name = Undefined
    /\ fn.rec.course = Undefined
    /\ fn.rec.status = Undefined
    /\ fn.event.summary = NotDoneGlyph \o " "

(* ------------------------------ C13 ----------------------------------- *)
\* the titles createEvent builds before it applies the status marker
BaseTitles == {"", "HW1", "[CS101] HW1"}

StartsWith(text, prefix) == \E rest \in BaseTitles : text = prefix \o rest

\* C13 (status marker): the title createEvent (and pageToEventTitle) gives a
\* record starts with U+2705 and a space when the status is "Done", and
\* with U+274C and a space for every other status, unset included; the
\* title createEvent of src/index.js gives is the strikethrough of the base
\* title when the status is "Done" and the base title itself otherwise.
C13_StatusMarker ==
    /\ fn.stage = "event" =>
          IF fn.rec.status = "Done"
          THEN StartsWith(fn.event.summary, "\\u2705 ")
          ELSE StartsWith(fn.event.summary, "\\u274c ")
    /\ fn.stage = "title" =>
          IF fn.rec.status = "Done"
          THEN StartsWith(fn.title, "\\u2705 ")
          ELSE StartsWith(fn.title, "\\u274c ")
    /\ fn.stage = "eventIndexJs" =>
          IF fn.rec.status = "Done"
          THEN fn.event.summary = strikeThrough(baseTitle(fn.rec))
          ELSE fn.event.summary = baseTitle(fn.rec)

C13_Witness ==
    /\ fn.stage = "event"
    /\ fn.rec.status = "Todo"
    /\ fn.event.summary = "\\u274c [CS101] HW1"

(* ------------------------------ C14 ----------------------------------- *)
\* C14 (date shape): for a record with a date, start and end of the event
\* createEvent builds carry only `date` (the record's date) when the date
\* has exactly 10 characters and only `dateTime` otherwise; start equals end.
C14_DateShape ==
    fn.stage = "event" =>
        /\ fn.rec.date # Undefined
        /\ fn.event.start = fn.event.end
        /\ IF Len(fn.rec.date) = 10
           THEN /\ fn.event.start.date = fn.rec.date
                /\ fn.event.start.dateTime = Undefined
                /\ fn.event.end.date = fn.rec.date
                /\ fn.event.end.dateTime = Undefined
           ELSE /\ fn.event.start.dateTime = fn.rec.date
                /\ fn.event.start.date = Undefined
                /\ fn.event.end.dateTime = fn.rec.date
                /\ fn.event.end.date = Undefined

C14_Witness ==
    /\ fn.stage = "event"
    /\ fn.rec.date = "2024-03-02"
    /\ fn.event.start = [date |-> "2024-03-02", dateTime |-> Undefined]
    /\ fn.event.end = [date |-> "2024-03-02", dateTime |-> Undefined]

(* ------------------------------ C15 ----------------------------------- *)
\* the base title as the specification derives it
TitleOf(name, course) ==
    IF name = Undefined THEN ""
    ELSE IF course = Undefined THEN name
    ELSE "[" \o course \o "] " \o name

ExampleRecord ==
    [id |-> "abc", name |-> "HW1", course |-> "CS101",
     date |-> "2024-03-01", status |-> "Done"]

\* C15 (title derivation): the title createEvent gives a record is the
\* status marker, a space, and then: nothing when the name is unset, the
\* name when the course is unset, "[<course>] <name>" when both are set;
\* the record {abc, HW1, CS101, 2024-03-01, Done} yields the event with
\* title U+2705 " [CS101] HW1", description "abc", start and end
\* {date: "2024-03-01"}.
C15_TitleDerivation ==
    fn.stage = "event" =>
        /\ fn.event.summary \in
              { "\\u2705 " \o TitleOf(fn.rec.name, fn.rec.course),
                "\\u274c " \o TitleOf(fn.rec.name, fn.rec.course) }
        /\ fn.rec = ExampleRecord =>
              fn.event = [summary |-> "\\u2705 [CS101] HW1",
                          description |-> "abc",
                          start |-> [date |-> "2024-03-01", dateTime |-> Undefined],
                          end |-> [date |-> "2024-03-01", dateTime |-> Undefined]]

C15_Witness ==
    /\ fn.stage = "event"
    /\ fn.rec = ExampleRecord
    /\ fn.event.summary = "\\u2705 [CS101] HW1"

(* ------------------------------ C16 ----------------------------------- *)
\* every insert and update body of a pass is createEvent of a fetched
\* record and carries that record's id as description; every update goes
\* to a fetched event with that description; an event a successful insert
\* created carries the description of its body as long as it exists
BodiesCarryRecordId ==
    \A p \in Passes : \A c \in 1..Len(calls[p]) :
        /\ calls[p][c].op \in {"insert", "update"} =>
              /\ calls[p][c].body.description \in Ids(fetched[p])
              /\ calls[p][c].body =
                    createEvent(PagesGet(fetched[p], calls[p][c].body.description))
        /\ calls[p][c].op = "update" =>
              \E k \in 1..Len(events[p]) :
                  /\ events[p][k].id = calls[p][c].eventId
                  /\ events[p][k].description = calls[p][c].body.description
        /\ (calls[p][c].op = "insert" /\ calls[p][c].ok
               /\ StoreHas(gcal, calls[p][c].eventId)) =>
              StoreGet(gcal, calls[p][c].eventId).description
                  = calls[p][c].body.description

\* a step changes the description of no event that exists before and after
\* it, and a successful update goes to an event whose description in the
\* calendar is the description of the request body
DescriptionsKept ==
    /\ \A k \in 1..Len(gcal) :
          StoreHas(gcal', gcal[k].id) =>
              StoreGet(gcal', gcal[k].id).description = gcal[k].description
    /\ \A p \in Passes :
          calls'[p] # calls[p] =>
              LET c == calls'[p][Len(calls'[p])] IN
              (c.op = "update" /\ c.ok) =>
                  /\ StoreHas(gcal, c.eventId)
                  /\ StoreGet(gcal, c.eventId).description = c.body.description

\* C16 (link preservation): every insert or update body carries as
\* description the id of the record it was built from, an update is only
\* issued to an event whose description already is that id, no step changes
\* the description of an existing event, and every event the reconciler
\* creates references the record it was created for.
C16_LinkPreserved ==
    []BodiesCarryRecordId /\ [][DescriptionsKept]_vars

C16_Witness ==
    \E p \in Passes :
        /\ Completed(p)
        /\ \E c \in CallsOf(p, "update") :
              /\ calls[p][c].ok
              /\ calls[p][c].body.description = "a"
              /\ StoreHas(gcal, calls[p][c].eventId)
              /\ StoreGet(gcal, calls[p][c].eventId).description = "a"
        /\ \E c \in CallsOf(p, "insert") :
              /\ calls[p][c].ok
              /\ calls[p][c].body.description = "b"
              /\ StoreHas(gcal, calls[p][c].eventId)
              /\ StoreGet(gcal, calls[p][c].eventId).description = "b"

(* ------------------------------ C17 ----------------------------------- *)
RECURSIVE Flatten(_)
Flatten(responses) ==
    IF responses = <<>> THEN <<>>
    ELSE Head(responses).results \o Flatten(Tail(responses))

\* the first request carries no cursor, every later one the cursor of the
\* response before it, and no response before the last had an empty cursor
CursorsChained(log) ==
    /\ Len(log) >= 1 => log[1].cursor = NoCursor
    /\ \A k \in 2..Len(log) :
          /\ log[k - 1].next # NoCursor
          /\ log[k].cursor = log[k - 1].next

\* C17 (pagination to exhaustion): getPages and getEvents issue one request
\* per result page, each with the cursor of the response before it, stop at
\* the first response without cursor and return every item of every page
\* served; the Map of getPages holds one entry per distinct page id, made
\* of the fields id, name, course, date and status.
C17_PaginationExhausts ==
    /\ pg.stage # "off" => CursorsChained(pg.log)
    /\ pg.stage \in {"pagesDone", "eventsDone"} =>
          /\ pg.log[Len(pg.log)].next = NoCursor
          /\ Flatten(pg.log) = pg.items
    /\ pg.stage = "eventsDone" => pg.result = Flatten(pg.log)
    /\ pg.stage = "pagesDone" =>
          /\ Ids(pg.result) = Ids(pg.items)
          /\ Len(pg.result) = Cardinality(Ids(pg.items))
          /\ \A k \in 1..Len(pg.result) :
                /\ DOMAIN pg.result[k] = {"id", "name", "course", "date", "status"}
                /\ \E n \in 1..Len(pg.items) :
                      pg.result[k] = reducePage(pg.items[n])

\* three pages of the database served in two result pages, two of them
\* with the same id
C17_Witness ==
    /\ pg.stage = "pagesDone"
    /\ Len(pg.log) = 2
    /\ Len(pg.items) = 3
    /\ Len(pg.result) = 2

(* ------------------------------ C18 ----------------------------------- *)
\* C18 (effective date): for a page whose Date is present, reducePage sets
\* the date to the end when there is one, with or without a start, and to
\* the start otherwise; for a page without Date the date stays unset.
C18_EffectiveDate ==
    fn.stage = "reduced" =>
        IF fn.page.dated
        THEN IF fn.page.end # Undefined
             THEN fn.rec.date = fn.page.end
             ELSE fn.rec.date = fn.page.start
        ELSE fn.rec.date = Undefined

C18_Witness ==
    /\ fn.stage = "reduced"
    /\ fn.page.start = "2024-03-01"
    /\ fn.page.end = "2024-03-02T09:00:00-05:00"
    /\ fn.rec.date = "2024-03-02T09:00:00-05:00"

EndedProperly ==
    \A p \in Passes :
        /\ pc[p] = "done" =>
              /\ i[p] = Len(events[p]) + 1
              /\ Cardinality(CallsOf(p, "insert")) = Len(pages[p])
              /\ \A c \in 1..Len(calls[p]) : calls[p][c].ok
        /\ pc[p] = "failed" =>
              /\ errLog >= 1
              /\ ~calls[p][Len(calls[p])].ok

\* C20 (every pass terminates): when every awaited store call eventually
\* returns or fails, every started pass eventually has completed (all
\* fetched events and all unmatched records handled) or has ended with a
\* logged error.
C20_EveryPassTerminates ==
    /\ []EndedProperly
    /\ \A p \in Passes : (pc[p] # "idle") ~> (pc[p] \in {"done", "failed"})

C20_Witness ==
    \E p, q \in Passes :
        /\ pc[p] = "done"
        /\ Len(events[p]) = 2
        /\ CallsOf(p, "insert") # {}
        /\ pc[q] = "failed"
        /\ overlap[q]

(* ------------------------------ C21 ----------------------------------- *)
\* C21 (no state shared by the passes of part_000): every update call of
\* every pass carries the id of a fetched event of that pass whose
\* description is the description of the request body, that is the id of
\* the page the body was built from.
C21_UpdateIdAndBodyOfOneEvent ==
    \A p \in Passes : \A c \in CallsOf(p, "update") :
        \E k \in 1..Len(events[p]) :
            /\ events[p][k].id = calls[p][c].eventId
            /\ events[p][k].description = calls[p][c].body.description

(* ------------------------------ C22 ----------------------------------- *)
\* the fetched event of the one pass of src/index.js that has this id
FetchedById(id) ==
    events[Once][CHOOSE k \in 1..Len(events[Once]) : events[Once][k].id = id]

\* C22 (a lookup failure is not an orphan, src/index.js): a lookup that
\* fails by a transient error is the last call of the pass, the pass has
\* ended by that failure and the event is still in the calendar; and every
\* delete call of syncGCal is for an event whose description is the id of
\* no page of the database.
C22_LookupFailureIsNoOrphan ==
    /\ \A c \in 1..Len(calls[Once]) :
          (calls[Once][c].op = "retrieve" /\ calls[Once][c].outcome = "transient") =>
              /\ c = Len(calls[Once])
              /\ pc[Once] = "failed"
              /\ StoreHas(gcal, calls[Once][c].eventId)
    /\ \A c \in CallsOf(Once, "delete") :
          ~Retrievable(notion, FetchedById(calls[Once][c].eventId).description)

(* ------------------------------ C23 ----------------------------------- *)
\* the calls of the one pass of src/index.js with operation op for event k
IndexJsCallsFor(op, k) ==
    { c \in CallsOf(Once, op) : calls[Once][c].eventId = events[Once][k].id }

\* C23 (membership in the fetched Map decides deletion, src/index.js): for
\* every fetched event whose iteration is over, there is a delete call for
\* it if and only if its description is no key of the Map getPages()
\* returned, and an event whose description is no key of that Map gets no
\* update call.
C23_MembershipDecidesDeletion ==
    \A k \in 1..Len(events[Once]) :
        k < i[Once] =>
            /\ IndexJsCallsFor("delete", k) # {}
                   <=> ~PagesHas(fetched[Once], events[Once][k].description)
            /\ ~PagesHas(fetched[Once], events[Once][k].description)
                   => IndexJsCallsFor("update", k) = {}

(* ------------------------------ C24 ----------------------------------- *)
\* the position in the fetched list of pass p of the event with this id
PosOf(p, id) == CHOOSE k \in 1..Len(events[p]) : events[p][k].id = id

LoopOps == {"delete", "update"}

\* the calls of a pass in the order it issued them: the query, then the
\* list, then deletes and updates in the order of the fetched list, then
\* inserts; a call is issued only when the call before it has returned
CallsInOrder ==
    \A p \in Passes : \A c \in 1..Len(calls[p]) :
        /\ calls[p][c].op = "query" <=> c = 1
        /\ calls[p][c].op = "list" <=> c = 2
        /\ c < Len(calls[p]) => calls[p][c].ok
        /\ \A b \in 1..(c - 1) :
              /\ calls[p][c].op \in LoopOps => calls[p][b].op # "insert"
              /\ (calls[p][b].op \in LoopOps /\ calls[p][c].op \in LoopOps) =>
                    PosOf(p, calls[p][b].eventId) < PosOf(p, calls[p][c].eventId)

\* a step issues at most one call per pass
OneCallAtATime ==
    \A p \in Passes : Len(calls'[p]) <= Len(calls[p]) + 1

\* C24 (order of steps): in every pass the record fetch completes before
\* the event list is requested, the event list completes before any
\* mutation call, delete and update calls are issued one at a time in the
\* order of the fetched event list, and every insert call comes after the
\* last delete or update call.
C24_StepsInOrder ==
    []CallsInOrder /\ [][OneCallAtATime]_vars

C24_Witness ==
    \E p \in Passes :
        /\ Completed(p)
        /\ Len(calls[p]) = 5
        /\ calls[p][3].op = "delete"
        /\ calls[p][4].op = "update"
        /\ calls[p][5].op = "insert"

(* ------------------------------ C25 ----------------------------------- *)
\* the positions of the fetched list of pass p whose event references the
\* same record as position k, which is the first to reference it
LaterDuplicates(p, k) ==
    { h \in (k + 1)..Len(events[p]) :
        events[p][h].description = events[p][k].description }

CallsFor(p, op, k) ==
    { c \in CallsOf(p, op) : calls[p][c].eventId = events[p][k].id }

\* C25 (duplicate clean-up): when the fetched list of a completed pass
\* holds two or more events whose description is the same fetched record
\* id, the pass issues no delete for the first of them, one update with
\* body createEvent(record) for it when it differs from createEvent(record),
\* exactly one delete and no update for each later one, and no insert for
\* the record; when the pass ran alone, the first is in the calendar and
\* the later ones are not.
C25_FirstDuplicateKept ==
    \A p \in Passes : \A k \in 1..Len(events[p]) :
        (Completed(p) /\ FirstLinked(p, k) /\ LaterDuplicates(p, k) # {}) =>
            /\ CallsFor(p, "delete", k) = {}
            /\ Cardinality(CallsFor(p, "update", k)) <= 1
            /\ ~EqualityRule(BodyOf(events[p][k]), Wanted(p, k)) => UpdatedOnce(p, k)
            /\ \A h \in LaterDuplicates(p, k) :
                  /\ Cardinality(CallsFor(p, "delete", h)) = 1
                  /\ CallsFor(p, "update", h) = {}
            /\ InsertsFor(p, events[p][k].description) = {}
            /\ Alone(p) =>
                  /\ StoreHas(gcal, events[p][k].id)
                  /\ \A h \in LaterDuplicates(p, k) : ~StoreHas(gcal, events[p][h].id)

C25_Witness ==
    \E p \in Passes : \E k \in 1..Len(events[p]) :
        /\ Completed(p) /\ Alone(p)
        /\ FirstLinked(p, k)
        /\ LaterDuplicates(p, k) # {}
        /\ ~EqualityRule(BodyOf(events[p][k]), Wanted(p, k))
        /\ UpdatedOnce(p, k)
        /\ StoreHas(gcal, events[p][k].id)
        /\ \A h \in LaterDuplicates(p, k) : ~StoreHas(gcal, events[p][h].id)

(* ------------------------------ C26 ----------------------------------- *)
\* C26 (mutations confined to the snapshot): every delete or update call
\* of a pass carries the id of an event of the list getEvents returned to
\* that pass, no fetched event receives more than one delete or update
\* call, and the pass issues no more insert calls than it fetched records.
C26_MutationsWithinSnapshot ==
    \A p \in Passes :
        /\ \A c \in CallsOf(p, "delete") \cup CallsOf(p, "update") :
              \E k \in 1..Len(events[p]) : events[p][k].id = calls[p][c].eventId
        /\ \A k \in 1..Len(events[p]) :
              Cardinality(CallsFor(p, "delete", k) \cup CallsFor(p, "update", k)) <= 1
        /\ Cardinality(CallsOf(p, "insert")) <= Len(fetched[p])

C26_Witness ==
    \E p \in Passes :
        /\ Completed(p)
        /\ Len(events[p]) = 2
        /\ Cardinality(CallsOf(p, "delete")) = 1
        /\ Cardinality(CallsOf(p, "update")) = 1
        /\ Cardinality(CallsOf(p, "insert")) = 1
        /\ Len(fetched[p]) = 2

====
